---- MODULE Spec2Model ----
(***************************************************************************)
(* Model of the YouTube Lounge media player entity (src/src/media_player.py) *)
(* as a set of asyncio tasks on one cooperative event loop.  Every action   *)
(* is the code one task runs between two real suspension points.            *)
(*                                                                          *)
(* asyncio semantics used by the model:                                     *)
(*  - Task.cancel() only requests cancellation; the CancelledError is       *)
(*    thrown into the task at its next step, so other tasks run in between. *)
(*  - a task whose coroutine swallows CancelledError and returns ends        *)
(*    "done"; one that lets it escape (or never started) ends "cancelled".   *)
(*  - awaiting a "done" task returns at once; awaiting a "cancelled" task    *)
(*    raises CancelledError in the awaiter.                                  *)
(*  - an exception raised by the callback given to api.subscribe comes out   *)
(*    of the awaited subscribe call.                                         *)
(***************************************************************************)
EXTENDS Naturals, Sequences, FiniteSets

VARIABLES
    connected,          \* self._api.connected()
    linked,             \* self._api.linked()
    google_api_key,     \* self._google_api_key is set
    yt_api,             \* self._yt_api is set
    state,              \* self._state: <<>> (None) or <<snapshot>>
    state_time,         \* self._state_time
    video_info,         \* self._video_info: <<>> (None) or <<record>>
    subscription,       \* self._subscription: 0 (None) or a task id
    ntasks,             \* number of supervision tasks created so far
    tpc,                \* position of each supervision task
    tcancel,            \* cancellation requested and not yet thrown into the task
    treq,               \* media id of the lookup the task's callback is awaiting
    tfail,              \* where the failure came from that the task is backing off for
    mpc,                \* position of each manual_reconnect invocation
    mtask,              \* the task a manual_reconnect invocation awaits
    mrefresh,           \* refresh_auth calls made by each invocation
    mconnect,           \* connect calls made by each invocation
    spc,                \* position of the __setup_youtube_api task
    sreq,               \* media id of the lookup __setup_youtube_api is awaiting
    ha_stale,           \* the cache was written and async_write_ha_state not yet called
    last_notification,  \* last argument __new_state was called with
    lookups,            \* lookups issued by the callback, per media id
    added,              \* async_added_to_hass has run
    removed,            \* the host has removed the entity
    now,                \* the instant dt_util.utcnow() returns
    host_view,          \* the snapshot and the properties the host read last
    cpc,                \* position of the command the host has invoked
    ccmd,               \* the command invoked
    cfails,             \* the client call of the command is going to fail
    cops                \* client operations called for the command

vars == <<connected, linked, google_api_key, yt_api, state, state_time, video_info,
          subscription, ntasks, tpc, tcancel, treq, tfail, mpc, mtask,
          mrefresh, mconnect, spc, sreq, ha_stale, last_notification,
          lookups, added, removed, now, host_view, cpc, ccmd, cfails, cops>>

apiVars == <<connected, linked>>
cacheVars == <<state, state_time, video_info, ha_stale, last_notification>>
taskVars == <<subscription, ntasks, tpc, tcancel, treq, tfail>>
callVars == <<mpc, mtask, mrefresh, mconnect>>
setupVars == <<google_api_key, yt_api, spc, sreq>>
countVars == <<lookups>>
lifeVars == <<added, removed>>
commandVars == <<cpc, ccmd, cfails, cops>>
hostVars == <<now, host_view, commandVars>>

(***************************************************************************)
(* Bounds                                                                  *)
(***************************************************************************)
MaxCalls == 2           \* manual_reconnect invocations
MaxCacheCalls == 1      \* manual_reconnect invocations under SpecCache
MaxClock == 2           \* instants after the entity's construction

Calls == 1..MaxCalls
CacheCalls == {m \in Calls : m <= MaxCacheCalls}
Tasks == 1..(MaxCalls + 1)

(***************************************************************************)
(* Data                                                                    *)
(***************************************************************************)
None == <<>>
Some(x) == <<x>>
NoId == "NoId"
VideoIds == {"v1", "v2"}

\* PlaybackState values the channel may deliver (None: no active session)
Snapshots ==
    { [state |-> "Playing", videoId |-> "v1", currentTime |-> 0],
      [state |-> "Paused",  videoId |-> "v2", currentTime |-> 5],
      [state |-> "Stopped", videoId |-> NoId, currentTime |-> 0] }
Notifications == {None} \cup {Some(s) : s \in Snapshots}
\* every value of the state enum, with and without a media id; the floats
\* currentTime and duration are counted in tenths of a second: 0.0, 0.5 and
\* 1.5 seconds
YtStates == {"Idle", "Starting", "Buffering", "Playing", "Paused", "Stopped",
             "Advertisement"}
FacadeSnapshots ==
    [state : YtStates, videoId : {"v1", NoId}, currentTime : {0, 5, 15},
     duration : {0, 15}]
FacadeNotifications == {None} \cup {Some(s) : s \in FacadeSnapshots}

\* the commands the host can invoke, lines 269-287
Commands == {"pause", "play", "previous_track", "next_track", "seek"}

\* the notifications of a session that plays a single video
OneIdNotifications == {n \in Notifications : n = None \/ n[1].videoId = "v1"}

\* self._state and self._state.videoId
HasVideoId(st) == st # None /\ st[1].videoId # NoId

_VideoInfo(video_id, snippet) ==
    [id |-> video_id, title |-> snippet, channel_title |-> snippet]

\* the snippet the metadata service returns for a media id
Snippet(v) == v

Alive(p) == p \in {"new", "connect0", "sleep10", "refresh", "connect",
                   "subscribe", "lookup", "sleep1", "sleep30"}
Finished(p) == p \in {"done", "cancelled"}

(***************************************************************************)
(* Pure parts of the code                                                  *)
(***************************************************************************)
\* a wrapper whose bare except also takes the CancelledError
OnCancelAsFailure(p) == IF p = "new" THEN "cancelled" ELSE "sleep30"

\* __subscription_task, lines 96-106: where a CancelledError thrown at
\* position p leaves the task.  Inside the try it is caught and the loop is
\* left (the coroutine returns); in the handler's sleep, or before the
\* coroutine has started, nothing catches it.
OnCancel(p) == IF p \in {"new", "sleep30"} THEN "cancelled" ELSE "done"

\* a wrapper that leaves the loop on any exception
OnFailureBreak(p) == "done"

\* __subscription_task, lines 101-106: any other exception raised inside
\* __subscribe_and_keep_alive is caught and the handler sleeps
OnFailure(p) == "sleep30"

\* a callback that fills the fields a notification lacks from the cached one
NewStateMerged(cur, n) ==
    IF cur # None /\ n # None /\ n[1].videoId = NoId
    THEN Some([n[1] EXCEPT !.videoId = cur[1].videoId])
    ELSE n

\* __new_state, line 170: the snapshot kept for notification n when cur is cached
NewState(cur, n) == n

\* a resolver without the check of line 155
NeedsLookupAlways(api, st, info) == api /\ HasVideoId(st)

\* __update_video_snippet, lines 154-156: a lookup is issued
NeedsLookup(api, st, info) ==
    /\ api
    /\ HasVideoId(st)
    /\ ~(info # None /\ st[1].videoId = info[1].id)

\* a resolver without the else branch of lines 165-166
ClearsInfoNever(api, st) == FALSE

\* __update_video_snippet, lines 154, 165-166: the record is cleared
ClearsInfo(api, st) == ~(api /\ HasVideoId(st))

\* __update_video_snippet when it does not suspend: the record it leaves
InfoAfter(api, st, info) == IF ClearsInfo(api, st) THEN None ELSE info

\* a reconnect loop that never renews the credential
AfterSleep10NoRefresh(lnk) == "connect"

\* lines 117-119: the call the reconnect loop makes after its sleep, with
\* linked() = lnk
AfterSleep10(lnk) == IF ~lnk THEN "refresh" ELSE "connect"

\* a manual_reconnect that cancels the task and goes on without awaiting it
AfterAwaitNoWait(p) == IF p = "cancelled" THEN "cancelled" ELSE "refresh"

\* manual_reconnect, line 130: what `await self._subscription` does when the
\* awaited task is at position p: it returns once the task has returned,
\* raises CancelledError once the task has ended cancelled, and waits otherwise
AfterAwait(p) ==
    CASE p = "done" -> "refresh"
      [] p = "cancelled" -> "cancelled"
      [] OTHER -> "await"

\* a state property that shows an advertisement as paused content
StatePropertyAdPaused(st) ==
    IF st = None THEN "off"
    ELSE IF st[1].state \in {"Playing", "Starting", "Buffering"} THEN "playing"
    ELSE IF st[1].state \in {"Paused", "Advertisement"} THEN "paused"
    ELSE IF st[1].state = "Stopped" THEN "on"
    ELSE "off"

\* the state property, lines 190-206
StateProperty(st) ==
    IF st = None THEN "off"
    ELSE IF st[1].state \in {"Playing", "Starting", "Buffering",
                             "Advertisement"} THEN "playing"
    ELSE IF st[1].state = "Paused" THEN "paused"
    ELSE IF st[1].state = "Stopped" THEN "on"
    ELSE "off"

\* int(x) of a float x >= 0 counted in tenths: the whole seconds
Int(x) == x \div 10

\* media_position, lines 243-246:
\* self._state and int(self._state.currentTime) or None
media_position(st) ==
    IF st # None /\ Int(st[1].currentTime) # 0
    THEN Some(Int(st[1].currentTime)) ELSE None

\* media_duration, lines 256-259:
\* self._state and int(self._state.duration) or None
media_duration(st) ==
    IF st # None /\ Int(st[1].duration) # 0
    THEN Some(Int(st[1].duration)) ELSE None

\* the client operation each command calls, lines 269-287
ClientOp(c) ==
    CASE c = "pause" -> "pause"
      [] c = "play" -> "play"
      [] c = "previous_track" -> "previous"
      [] c = "next_track" -> "next"
      [] c = "seek" -> "seek_to"

\* a command that calls the client again when the call fails
AfterCommandRetried(failed) == IF failed THEN "called" ELSE "returned"

\* lines 269-287, `return await self._api.<op>()`: the command returns what
\* the call returns and raises what it raises
AfterCommand(failed) == IF failed THEN "raised" ELSE "returned"

\* a property that also tests the position, which is 0 at the start
media_position_updated_at_truthy(st, tm) ==
    IF st # None /\ st[1].currentTime # 0 THEN Some(tm) ELSE None

\* media_position_updated_at, lines 248-254:
\* self._state and self._state_time or None
media_position_updated_at(st, tm) == IF st # None THEN Some(tm) ELSE None

\* the lookups of one media id are counted as never, once or again
Counted(n) == IF n = "never" THEN "once" ELSE "again"

(***************************************************************************)
(* Initial state: the entity as __init__ leaves it (lines 76-85), the      *)
(* channel connected by async_setup_entry of __init__.py (lines 31-39)     *)
(***************************************************************************)
Init ==
    /\ connected = TRUE
    /\ linked = TRUE
    /\ google_api_key \in BOOLEAN
    /\ yt_api = FALSE
    /\ state = None
    /\ state_time = 0
    /\ video_info = None
    /\ subscription = 0
    /\ ntasks = 0
    /\ tpc = [t \in Tasks |-> "none"]
    /\ tcancel = [t \in Tasks |-> FALSE]
    /\ treq = [t \in Tasks |-> NoId]
    /\ tfail = [t \in Tasks |-> "none"]
    /\ mpc = [m \in Calls |-> "idle"]
    /\ mtask = [m \in Calls |-> 0]
    /\ mrefresh = [m \in Calls |-> 0]
    /\ mconnect = [m \in Calls |-> 0]
    /\ spc = "none"
    /\ sreq = NoId
    /\ ha_stale = FALSE
    /\ last_notification = None
    /\ lookups = [v \in VideoIds |-> "never"]
    /\ added = FALSE
    /\ removed = FALSE
    /\ now = 0
    /\ host_view = None
    /\ cpc = "idle"
    /\ ccmd = "none"
    /\ cfails = FALSE
    /\ cops = <<>>

(***************************************************************************)
(* Helpers shared by the actions (they constrain primed variables)         *)
(***************************************************************************)
\* hass.async_create_task(self.__subscription_task()); self._subscription = it
CreateTask ==
    /\ ntasks' = ntasks + 1
    /\ subscription' = ntasks + 1
    /\ tpc' = [tpc EXCEPT ![ntasks + 1] = "new"]

\* __new_state(None) in the reconnect loop, line 115: with a null snapshot
\* __update_video_snippet takes the else branch and never suspends
PublishNoState ==
    /\ state_time' = now
    /\ state' = NewState(state, None)
    /\ last_notification' = None
    /\ video_info' = InfoAfter(yt_api, state', video_info)
    /\ ha_stale' = FALSE

\* a loop that subscribes without testing connected()
EnterLoopSubscribes(t, conn) ==
    /\ UNCHANGED cacheVars
    /\ tpc' = [tpc EXCEPT ![t] = "subscribe"]

\* lines 112-122 from the top of `while True` to the next suspension, with
\* connected() = conn
EnterLoop(t, conn) ==
    IF ~conn
    THEN /\ PublishNoState
         /\ tpc' = [tpc EXCEPT ![t] = "sleep10"]
    ELSE /\ UNCHANGED cacheVars
         /\ tpc' = [tpc EXCEPT ![t] = "subscribe"]

\* lines 108-122 from the start of __subscribe_and_keep_alive
EnterKeepAlive(t) ==
    IF ~connected
    THEN /\ UNCHANGED cacheVars
         /\ tpc' = [tpc EXCEPT ![t] = "connect0"]
    ELSE EnterLoop(t, connected)

\* a step of task t other than the delivery of a CancelledError
Runs(t, p) == tpc[t] = p /\ ~tcancel[t]

\* an exception other than CancelledError is raised at the task's position
Fails(t, src) ==
    /\ tpc' = [tpc EXCEPT ![t] = OnFailure(tpc[t])]
    /\ tfail' = [tfail EXCEPT ![t] = src]
    /\ treq' = [treq EXCEPT ![t] = NoId]

(***************************************************************************)
(* Entity lifecycle                                                        *)
(***************************************************************************)
\* async_added_to_hass, lines 137-146
AddedToHass ==
    /\ ~added
    /\ added' = TRUE
    /\ CreateTask
    /\ spc' = IF google_api_key THEN "discover" ELSE "none"
    /\ UNCHANGED <<apiVars, cacheVars, tcancel, treq, tfail, callVars,
                   google_api_key, yt_api, sreq, countVars, removed, hostVars>>

\* __removed_from_hass, lines 148-151
RemovedFromHass ==
    /\ added /\ ~removed
    /\ removed' = TRUE
    /\ IF subscription # 0
       THEN /\ tcancel' = [tcancel EXCEPT
                             ![subscription] = Alive(tpc[subscription])]
            /\ subscription' = 0
       ELSE UNCHANGED <<tcancel, subscription>>
    /\ UNCHANGED <<apiVars, cacheVars, ntasks, tpc, treq, tfail, callVars,
                   setupVars, countVars, added, hostVars>>

(***************************************************************************)
(* The control channel's own changes                                       *)
(***************************************************************************)
\* the channel is lost
Disconnect ==
    /\ connected
    /\ connected' = FALSE
    /\ UNCHANGED <<linked, cacheVars, taskVars, callVars, setupVars,
                   countVars, lifeVars, hostVars>>

\* the credential expires
Unlink ==
    /\ linked
    /\ linked' = FALSE
    /\ UNCHANGED <<connected, cacheVars, taskVars, callVars, setupVars,
                   countVars, lifeVars, hostVars>>

\* time passes: dt_util.utcnow() (line 169) returns a later instant
Tick ==
    /\ now < MaxClock
    /\ now' = now + 1
    /\ UNCHANGED <<apiVars, cacheVars, taskVars, callVars, setupVars,
                   countVars, lifeVars, host_view, commandVars>>

(***************************************************************************)
(* The host reads the entity and sends it commands                         *)
(***************************************************************************)
\* the host reads the state property, lines 190-206, and the position and
\* duration properties, lines 243-246 and 256-259
HostRead ==
    /\ host_view' = Some([snapshot |-> state,
                          state |-> StateProperty(state),
                          media_position |-> media_position(state),
                          media_duration |-> media_duration(state)])
    /\ UNCHANGED <<apiVars, cacheVars, taskVars, callVars, setupVars,
                   countVars, lifeVars, now, commandVars>>

\* the host invokes command c, lines 269-287, up to the await of the client
\* call, which is going to fail or not
Command(c, failing) ==
    /\ added
    /\ cpc # "called"
    /\ cpc' = "called"
    /\ ccmd' = c
    /\ cfails' = failing
    /\ cops' = <<ClientOp(c)>>
    /\ UNCHANGED <<apiVars, cacheVars, taskVars, callVars, setupVars,
                   countVars, lifeVars, now, host_view>>

\* the client call of the command returns or raises
CommandEnds ==
    /\ cpc = "called"
    /\ cpc' = AfterCommand(cfails)
    /\ cops' = IF cpc' = "called" THEN Append(cops, ClientOp(ccmd)) ELSE cops
    /\ UNCHANGED <<apiVars, cacheVars, taskVars, callVars, setupVars,
                   countVars, lifeVars, now, host_view, ccmd, cfails>>

(***************************************************************************)
(* The supervision task: __subscription_task, lines 94-106, running        *)
(* __subscribe_and_keep_alive, lines 108-122                               *)
(***************************************************************************)
\* the first step of the task
TaskStart(t) ==
    /\ Runs(t, "new")
    /\ EnterKeepAlive(t)
    /\ UNCHANGED <<apiVars, subscription, ntasks, tcancel, treq, tfail,
                   callVars, setupVars, countVars, lifeVars, hostVars>>

\* line 110, await self._api.connect() returns ok
Connect0Return(t, ok) ==
    /\ Runs(t, "connect0")
    /\ connected' = (connected \/ ok)
    /\ EnterLoop(t, connected')
    /\ UNCHANGED <<linked, subscription, ntasks, tcancel, treq, tfail,
                   callVars, setupVars, countVars, lifeVars, hostVars>>

\* line 116 wakes up; lines 117-119 to the next await
Sleep10Wake(t) ==
    /\ Runs(t, "sleep10")
    /\ tpc' = [tpc EXCEPT ![t] = AfterSleep10(linked)]
    /\ UNCHANGED <<apiVars, cacheVars, subscription, ntasks, tcancel, treq,
                   tfail, callVars, setupVars, countVars, lifeVars, hostVars>>

\* line 118, await self._api.refresh_auth() returns ok; line 119 calls connect
RefreshReturn(t, ok) ==
    /\ Runs(t, "refresh")
    /\ linked' = (linked \/ ok)
    /\ tpc' = [tpc EXCEPT ![t] = "connect"]
    /\ UNCHANGED <<connected, cacheVars, subscription, ntasks, tcancel, treq,
                   tfail, callVars, setupVars, countVars, lifeVars, hostVars>>

\* line 119, await self._api.connect() returns ok; line 113 is re-evaluated
ConnectReturn(t, ok) ==
    /\ Runs(t, "connect")
    /\ connected' = (connected \/ ok)
    /\ EnterLoop(t, connected')
    /\ UNCHANGED <<linked, subscription, ntasks, tcancel, treq, tfail,
                   callVars, setupVars, countVars, lifeVars, hostVars>>

\* connect, refresh_auth or subscribe raises
ApiRaises(t) ==
    /\ ~tcancel[t]
    /\ tpc[t] \in {"connect0", "refresh", "connect", "subscribe"}
    /\ Fails(t, IF tpc[t] = "connect0" THEN "connect" ELSE tpc[t])
    /\ UNCHANGED <<apiVars, cacheVars, subscription, ntasks, tcancel,
                   callVars, setupVars, countVars, lifeVars, hostVars>>

\* line 121, await self._api.subscribe(...) returns: the subscription ended
SubscribeReturn(t) ==
    /\ Runs(t, "subscribe")
    /\ tpc' = [tpc EXCEPT ![t] = "sleep1"]
    /\ UNCHANGED <<apiVars, cacheVars, subscription, ntasks, tcancel, treq,
                   tfail, callVars, setupVars, countVars, lifeVars, hostVars>>

\* line 122 wakes up
Sleep1Wake(t) ==
    /\ Runs(t, "sleep1")
    /\ EnterLoop(t, connected)
    /\ UNCHANGED <<apiVars, subscription, ntasks, tcancel, treq, tfail,
                   callVars, setupVars, countVars, lifeVars, hostVars>>

\* line 106 wakes up; the outer loop calls __subscribe_and_keep_alive again
Sleep30Wake(t) ==
    /\ Runs(t, "sleep30")
    /\ EnterKeepAlive(t)
    /\ tfail' = [tfail EXCEPT ![t] = "none"]
    /\ UNCHANGED <<apiVars, subscription, ntasks, tcancel, treq,
                   callVars, setupVars, countVars, lifeVars, hostVars>>

\* the CancelledError requested by Task.cancel() is thrown into the task
TaskCancelled(t) ==
    /\ tcancel[t]
    /\ Alive(tpc[t])
    /\ tpc' = [tpc EXCEPT ![t] = OnCancel(tpc[t])]
    /\ tcancel' = [tcancel EXCEPT ![t] = FALSE]
    /\ treq' = [treq EXCEPT ![t] = NoId]
    /\ tfail' = [tfail EXCEPT ![t] = "none"]
    /\ UNCHANGED <<apiVars, cacheVars, subscription, ntasks, callVars,
                   setupVars, countVars, lifeVars, hostVars>>

(***************************************************************************)
(* The notification callback: __new_state, lines 168-172, called by        *)
(* subscribe, and __update_video_snippet, lines 153-166                    *)
(***************************************************************************)
\* the channel delivers n; the callback runs to its end or to the lookup
Notify(t, n) ==
    /\ Runs(t, "subscribe")
    /\ state_time' = now
    /\ state' = NewState(state, n)
    /\ last_notification' = n
    /\ IF NeedsLookup(yt_api, state', video_info)
       THEN /\ tpc' = [tpc EXCEPT ![t] = "lookup"]
            /\ treq' = [treq EXCEPT ![t] = state'[1].videoId]
            /\ lookups' = [lookups EXCEPT ![state'[1].videoId] = Counted(@)]
            /\ ha_stale' = TRUE
            /\ UNCHANGED video_info
       ELSE /\ video_info' = InfoAfter(yt_api, state', video_info)
            /\ ha_stale' = FALSE
            /\ UNCHANGED <<tpc, treq, lookups>>
    /\ UNCHANGED <<apiVars, subscription, ntasks, tcancel, tfail, callVars,
                   setupVars, lifeVars, hostVars>>

\* lines 162-164 and 172: the lookup answers; self._state is read again
LookupReturn(t) ==
    /\ Runs(t, "lookup")
    /\ IF state = None
       THEN \* self._state.videoId raises AttributeError
            /\ Fails(t, "callback")
            /\ UNCHANGED <<video_info, ha_stale>>
       ELSE /\ video_info' = Some(_VideoInfo(state[1].videoId, Snippet(treq[t])))
            /\ ha_stale' = FALSE
            /\ tpc' = [tpc EXCEPT ![t] = "subscribe"]
            /\ treq' = [treq EXCEPT ![t] = NoId]
            /\ UNCHANGED tfail
    /\ UNCHANGED <<apiVars, state, state_time, last_notification, subscription, ntasks,
                   tcancel, callVars, setupVars, countVars, lifeVars, hostVars>>

\* line 162 or 163 raises: nothing in the callback catches it
LookupRaises(t) ==
    /\ Runs(t, "lookup")
    /\ Fails(t, "callback")
    /\ UNCHANGED <<apiVars, cacheVars, subscription, ntasks, tcancel,
                   callVars, setupVars, countVars, lifeVars, hostVars>>

(***************************************************************************)
(* manual_reconnect, lines 124-135                                         *)
(***************************************************************************)
\* line 130 is passed: line 131 calls refresh_auth
CallRefresh(m) ==
    /\ mpc' = [mpc EXCEPT ![m] = "refresh"]
    /\ mrefresh' = [mrefresh EXCEPT ![m] = @ + 1]
    /\ UNCHANGED mconnect

\* line 130 raises the CancelledError the awaited task ended with
CallAborted(m) ==
    /\ mpc' = [mpc EXCEPT ![m] = "cancelled"]
    /\ UNCHANGED <<mrefresh, mconnect>>

\* the position line 130 leaves an invocation in
Arrive(m, q) ==
    CASE q = "refresh" -> CallRefresh(m)
      [] q = "cancelled" -> CallAborted(m)
      [] OTHER -> /\ mpc' = [mpc EXCEPT ![m] = "await"]
                  /\ UNCHANGED <<mrefresh, mconnect>>

\* the host invokes the service: lines 126-130 up to the first suspension
ReconnectCall(m) ==
    /\ added /\ ~removed
    /\ mpc[m] = "idle"
    /\ \A k \in Calls : k < m => mpc[k] # "idle"  \* numbered in call order
    /\ IF subscription # 0
       THEN /\ mtask' = [mtask EXCEPT ![m] = subscription]
            /\ tcancel' = [tcancel EXCEPT ![subscription] =
                             @ \/ Alive(tpc[subscription])]
            /\ Arrive(m, AfterAwait(tpc[subscription]))
            /\ UNCHANGED <<subscription, ntasks, tpc>>
       ELSE /\ CreateTask
            /\ mpc' = [mpc EXCEPT ![m] = "done"]
            /\ UNCHANGED <<mtask, mrefresh, mconnect, tcancel>>
    /\ UNCHANGED <<apiVars, cacheVars, treq, tfail, setupVars, countVars,
                   lifeVars, hostVars>>

\* line 130, await self._subscription, resumes once the task has ended
ReconnectResume(m) ==
    /\ mpc[m] = "await"
    /\ Finished(tpc[mtask[m]])
    /\ Arrive(m, AfterAwait(tpc[mtask[m]]))
    /\ UNCHANGED <<apiVars, cacheVars, taskVars, mtask, setupVars, countVars,
                   lifeVars, hostVars>>

\* line 131, refresh_auth returns ok; line 133 calls connect
ReconnectRefreshReturn(m, ok) ==
    /\ mpc[m] = "refresh"
    /\ linked' = (linked \/ ok)
    /\ mpc' = [mpc EXCEPT ![m] = "connect"]
    /\ mconnect' = [mconnect EXCEPT ![m] = @ + 1]
    /\ UNCHANGED <<connected, cacheVars, taskVars, mtask, mrefresh, setupVars,
                   countVars, lifeVars, hostVars>>

\* line 133, connect returns ok; line 135 creates the new task
ReconnectConnectReturn(m, ok) ==
    /\ mpc[m] = "connect"
    /\ connected' = (connected \/ ok)
    /\ CreateTask
    /\ mpc' = [mpc EXCEPT ![m] = "done"]
    /\ UNCHANGED <<linked, cacheVars, tcancel, treq, tfail, mtask, mrefresh,
                   mconnect, setupVars, countVars, lifeVars, hostVars>>

\* refresh_auth (line 131) or connect (line 133) raises
ReconnectApiRaises(m) ==
    /\ mpc[m] \in {"refresh", "connect"}
    /\ mpc' = [mpc EXCEPT ![m] = "failed"]
    /\ UNCHANGED <<apiVars, cacheVars, taskVars, mtask, mrefresh, mconnect,
                   setupVars, countVars, lifeVars, hostVars>>

(***************************************************************************)
(* __setup_youtube_api, lines 87-92                                        *)
(***************************************************************************)
\* line 89, discover returns; lines 90-92 up to the lookup
SetupDiscoverReturn ==
    /\ spc = "discover"
    /\ yt_api' = TRUE
    /\ IF HasVideoId(state)
       THEN IF NeedsLookup(yt_api', state, video_info)
            THEN /\ spc' = "lookup"
                 /\ sreq' = state[1].videoId
                 /\ UNCHANGED <<video_info, ha_stale>>
            ELSE /\ spc' = "done"
                 /\ video_info' = InfoAfter(yt_api', state, video_info)
                 /\ ha_stale' = FALSE
                 /\ UNCHANGED sreq
       ELSE /\ spc' = "done"
            /\ UNCHANGED <<video_info, ha_stale, sreq>>
    /\ UNCHANGED <<apiVars, state, state_time, last_notification, taskVars, callVars,
                   google_api_key, countVars, lifeVars, hostVars>>

\* lines 162-164, then line 92: the lookup answers
SetupLookupReturn ==
    /\ spc = "lookup"
    /\ IF state = None
       THEN \* self._state.videoId raises AttributeError
            /\ spc' = "crashed"
            /\ UNCHANGED <<video_info, ha_stale>>
       ELSE /\ video_info' = Some(_VideoInfo(state[1].videoId, Snippet(sreq)))
            /\ ha_stale' = FALSE
            /\ spc' = "done"
    /\ sreq' = NoId
    /\ UNCHANGED <<apiVars, state, state_time, last_notification, taskVars, callVars,
                   google_api_key, yt_api, countVars, lifeVars, hostVars>>

\* discover (line 89) or the lookup (lines 162-163) raises
SetupRaises ==
    /\ spc \in {"discover", "lookup"}
    /\ spc' = "failed"
    /\ sreq' = NoId
    /\ UNCHANGED <<apiVars, cacheVars, taskVars, callVars, google_api_key,
                   yt_api, countVars, lifeVars, hostVars>>

(***************************************************************************)
(* Specification                                                           *)
(***************************************************************************)
\* the steps of supervision task t, the channel delivering notifications of Ns
TaskStep(t, Ns) ==
    \/ TaskStart(t)
    \/ \E ok \in BOOLEAN : Connect0Return(t, ok)
    \/ Sleep10Wake(t)
    \/ \E ok \in BOOLEAN : RefreshReturn(t, ok)
    \/ \E ok \in BOOLEAN : ConnectReturn(t, ok)
    \/ ApiRaises(t)
    \/ SubscribeReturn(t)
    \/ Sleep1Wake(t)
    \/ Sleep30Wake(t)
    \/ TaskCancelled(t)
    \/ \E n \in Ns : Notify(t, n)
    \/ LookupReturn(t)
    \/ LookupRaises(t)

ReconnectStep(m) ==
    \/ ReconnectCall(m)
    \/ ReconnectResume(m)
    \/ \E ok \in BOOLEAN : ReconnectRefreshReturn(m, ok)
    \/ \E ok \in BOOLEAN : ReconnectConnectReturn(m, ok)
    \/ ReconnectApiRaises(m)

SetupStep ==
    \/ SetupDiscoverReturn
    \/ SetupLookupReturn
    \/ SetupRaises

\* every step of the entity, with notifications of Ns and the invocations Ms
\* of manual_reconnect
NextOf(Ns, Ms) ==
    \/ AddedToHass
    \/ RemovedFromHass
    \/ Disconnect
    \/ Unlink
    \/ \E t \in Tasks : TaskStep(t, Ns)
    \/ \E m \in Ms : ReconnectStep(m)
    \/ SetupStep

Next == NextOf(Notifications, Calls)

\* the supervisor and manual_reconnect, overlapping, over a session that
\* plays a single video
NextSupervisor == NextOf(OneIdNotifications, Calls)

\* the caches over every notification, with MaxCacheCalls invocations of
\* manual_reconnect
NextCache == NextOf(Notifications, CacheCalls)

\* a session that plays a single video, observed while time passes
NextClock == NextOf(OneIdNotifications, CacheCalls) \/ Tick

\* the facade: a connected session delivering every kind of snapshot while
\* the host reads the state and sends commands
NextFacade ==
    \/ AddedToHass
    \/ TaskStart(1)
    \/ \E n \in FacadeNotifications : Notify(1, n)
    \/ HostRead
    \/ \E c \in Commands, failing \in BOOLEAN : Command(c, failing)
    \/ CommandEnds

Spec == Init /\ [][Next]_vars
SpecSupervisor == Init /\ [][NextSupervisor]_vars
SpecCache == Init /\ [][NextCache]_vars
SpecClock == Init /\ [][NextClock]_vars
SpecFacade == Init /\ [][NextFacade]_vars

(***************************************************************************)
(* Claims                                                                  *)
(***************************************************************************)
AliveTasks == {t \in Tasks : Alive(tpc[t])}

\* C1: at every point in time at most one supervision task is alive, also
\* when two manual_reconnect invocations overlap.
C1_AtMostOneSupervisionTask == Cardinality(AliveTasks) <= 1

\* C2: a manual_reconnect invoked while the entity holds a supervision task
\* runs to completion in whichever phase the old task is cancelled: it is
\* never thrown out of its await by the CancelledError of the task it awaits.
C2_ReconnectNeverAborted == \A m \in Calls : mpc[m] # "cancelled"

\* C3: the steps of manual_reconnect occur in order: the task is cancelled,
\* then observed stopped, then refresh_auth is called once, then connect is
\* called once, and only then is the new supervision task created.
C3_ReconnectOrder ==
    [][\A m \in Calls : mpc'[m] # mpc[m] =>
        CASE mpc'[m] = "await" ->
                /\ mpc[m] = "idle"
                /\ tcancel'[mtask'[m]]
                /\ mrefresh'[m] = 0 /\ mconnect'[m] = 0
                /\ ntasks' = ntasks
          [] mpc'[m] = "refresh" ->
                /\ mpc[m] \in {"idle", "await"}
                /\ tpc'[mtask'[m]] = "done"
                /\ mrefresh'[m] = 1 /\ mconnect'[m] = 0
                /\ ntasks' = ntasks
          [] mpc'[m] = "connect" ->
                /\ mpc[m] = "refresh"
                /\ tpc'[mtask'[m]] = "done"
                /\ mrefresh'[m] = 1 /\ mconnect'[m] = 1
                /\ ntasks' = ntasks
          [] mpc'[m] = "done" ->
                /\ mpc[m] = "connect"
                /\ tpc'[mtask'[m]] = "done"
                /\ mrefresh'[m] = 1 /\ mconnect'[m] = 1
                /\ ntasks' = ntasks + 1
                /\ subscription' = ntasks'
                /\ tpc'[subscription'] = "new"
          [] OTHER -> ntasks' = ntasks]_vars

\* C3 witness: an invocation has gone through all its steps and its new task runs
C3_Witness ==
    \E m \in Calls : /\ mpc[m] = "done"
                     /\ tpc[mtask[m]] = "done"
                     /\ subscription # 0
                     /\ Alive(tpc[subscription])
                     /\ subscription # mtask[m]

\* C4: once cancellation has been requested, the next step of the supervision
\* task ends it, at whichever suspension point it is: it makes no further
\* connect, refresh_auth, subscribe or sleep, and never enters the backoff.
C4_CancelTerminates ==
    [][\A t \in Tasks : (tcancel[t] /\ Alive(tpc[t]) /\ tpc'[t] # tpc[t])
                            => Finished(tpc'[t])]_vars

\* C4 witness: a task has returned, which only a caught cancellation allows
C4_Witness == \E t \in Tasks : tpc[t] = "done"

\* C5: the supervision task ends only when cancelled; a failure of connect,
\* refresh_auth, subscribe or the callback puts it into the 30s sleep, after
\* which the inner loop restarts from the connect phase.
C5_FailureBacksOffAndRestarts ==
    [][\A t \in Tasks :
        /\ (Alive(tpc[t]) /\ ~Alive(tpc'[t])) => tcancel[t]
        /\ (tfail'[t] # tfail[t] /\ tfail'[t] # "none") => tpc'[t] = "sleep30"
        /\ (tpc[t] = "sleep30" /\ tpc'[t] # "sleep30" /\ ~tcancel[t]) =>
              tpc'[t] = IF connected THEN "subscribe" ELSE "connect0"]_vars

\* C5 witness: a task is backing off after the callback's lookup raised
C5_Witness ==
    \E t \in Tasks : /\ tpc[t] = "sleep30"
                     /\ tfail[t] = "callback"

\* C6: when subscribe raises, the cached snapshot is cleared (the observable
\* state is off) while the wrapper sleeps 30s.
C6_SubscribeFailureClearsState ==
    \A t \in Tasks : (tpc[t] = "sleep30" /\ tfail[t] = "subscribe")
                        => state = None

\* C7: after any sequence of notifications the cache holds exactly the last
\* one accepted, with no field of an earlier one, whether or not the lookup
\* it triggered succeeds.
C7_CacheHoldsLastNotification == state = last_notification

\* C7 witness: a notification was resolved, a later one carried another media
\* id and its lookup failed
C7_Witness ==
    /\ HasVideoId(state)
    /\ video_info # None
    /\ video_info[1].id # state[1].videoId
    /\ \E t \in Tasks : tfail[t] = "callback"

LookupIssued == \E t \in Tasks : tpc[t] # "lookup" /\ tpc'[t] = "lookup"

\* the cached record is not keyed by the media id of snapshot st
NotKeyedBy(st) == IF video_info = None THEN TRUE
                  ELSE video_info[1].id # st[1].videoId

C9_LookupFailureAbsorbed ==
    \A t \in Tasks : tfail[t] = "callback" =>
        /\ tpc[t] # "sleep30"
        /\ ~ha_stale
        /\ video_info = None

\* C10: wherever a host can read the entity, the cached record is empty or
\* keyed by the media id of the current snapshot.
C10_RecordEmptyOrCurrent ==
    video_info = None \/ (state # None /\ video_info[1].id = state[1].videoId)

\* the position timestamp a host reads from the entity
PositionUpdatedAt == media_position_updated_at(state, state_time)

\* the callback given to subscribe accepts a notification at an instant
\* later than the one recorded last
CallbackAccepts ==
    /\ state_time' # state_time
    /\ \E t \in Tasks : tpc[t] = "subscribe" /\ tpc'[t] \in {"subscribe", "lookup"}

\* C11 as stated: every notification accepted sets the observation
\* timestamp, so with a strictly advancing clock the position timestamp a
\* host reads differs after each of any two consecutive notifications.
C11_TimestampDiffersEachNotification ==
    [][(state_time > 0 /\ CallbackAccepts) =>
            PositionUpdatedAt' # PositionUpdatedAt]_vars

\* C11 as amended: every call of __new_state, null or not, sets the
\* observation timestamp to the instant of the call; the position timestamp
\* a host reads is that instant when a snapshot is cached and absent when the
\* cache is null, so after two consecutive notifications it differs unless
\* both are null.
C11_TimestampSetEachNotification ==
    [][state_time' # state_time =>
        /\ state_time' = now /\ state_time' > state_time
        /\ state' = last_notification'
        /\ PositionUpdatedAt' = IF state' = None THEN None ELSE Some(now)
        /\ (state # None \/ state' # None) =>
              PositionUpdatedAt' # PositionUpdatedAt]_vars

\* C11 witness: a second notification was accepted at a later instant and a
\* snapshot is cached
C11_Witness == state_time = 2 /\ state # None /\ state = last_notification

\* C12: the observable state is a total function of the cached snapshot: a
\* null snapshot gives off; Playing, Starting, Buffering and Advertisement
\* give playing; Paused gives paused; Stopped gives on; any other state
\* value gives off.
C12_StateOfSnapshot ==
    host_view # None =>
        LET snapshot == host_view[1].snapshot
            shown == host_view[1].state
        IN  /\ shown \in {"off", "on", "playing", "paused"}
            /\ snapshot = None => shown = "off"
            /\ snapshot # None =>
                  /\ snapshot[1].state \in {"Playing", "Starting", "Buffering",
                                            "Advertisement"} => shown = "playing"
                  /\ snapshot[1].state = "Paused" => shown = "paused"
                  /\ snapshot[1].state = "Stopped" => shown = "on"
                  /\ snapshot[1].state = "Idle" => shown = "off"

\* C12 witness: the host has read the state of a stopped session, which is
\* on and not the off of a null snapshot
C12_Witness ==
    /\ host_view # None
    /\ host_view[1].snapshot # None
    /\ host_view[1].snapshot[1].state = "Stopped"
    /\ host_view[1].state = "on"

\* C13: each command makes exactly one call of the matching client
\* operation, is never retried, hands the client's failure to the caller,
\* and leaves the snapshot cache, the metadata record and the task handle
\* unchanged whether the call fails or not.
C13_CommandCallsClientOnce ==
    [][(cpc' # cpc \/ cops' # cops) =>
        /\ cops' = <<ClientOp(ccmd')>>
        /\ cpc' \in {"called", "returned", "raised"}
        /\ cpc' = "raised" => (cpc = "called" /\ cfails)
        /\ cpc' = "returned" => (cpc = "called" /\ ~cfails)
        /\ cpc' = "called" => cpc # "called"
        /\ UNCHANGED <<state, state_time, video_info, subscription>>]_vars

\* C13 witness: a seek failed in the client and the caller has the failure,
\* a snapshot being cached
C13_Witness ==
    /\ cpc = "raised"
    /\ ccmd = "seek"
    /\ cops = <<"seek_to">>
    /\ state # None

\* C14: when the metadata service becomes available the resolver runs once:
\* if the current snapshot has a media id, one lookup is made for it and,
\* when the service answers it, the record is keyed by the media id playing
\* at that moment and the observers are notified; with no snapshot or no
\* media id no lookup is made.
C14_BackfillOnServiceAvailable ==
    [][/\ (spc = "discover" /\ yt_api') =>
            /\ (spc' = "lookup") = HasVideoId(state)
            /\ spc' = "lookup" => sreq' = state[1].videoId
            /\ spc' # "lookup" => spc' = "done"
       /\ (spc = "lookup" /\ spc' \notin {"lookup", "failed"}) =>
            /\ spc' = "done"
            /\ video_info' # None
            /\ video_info'[1].id = state'[1].videoId
            /\ ~ha_stale']_vars

\* supervision task t has just made the call that position p awaits
MakesCall(t, p) == tpc'[t] = p /\ tpc[t] # p

\* C15 as stated: in the supervisor every connect attempt made while
\* connected() and linked() are both false follows a refresh_auth call made
\* since the previous connect attempt, in the connect phase of each (re)start
\* of the inner loop as in the reconnect sub-loop; no refresh_auth is made
\* while linked() is true.
C15_RefreshBeforeEveryConnect ==
    [][\A t \in Tasks :
        /\ ((MakesCall(t, "connect0") \/ MakesCall(t, "connect"))
                /\ ~connected' /\ ~linked') => tpc[t] = "refresh"
        /\ MakesCall(t, "refresh") => ~linked]_vars

\* C15 as amended: every connect attempt of the reconnect sub-loop made
\* while linked() is false directly follows a refresh_auth call made after
\* the 10s sleep, and refresh_auth is called only there and only while
\* linked() is false; the connect attempt of the connect phase is made
\* right at the (re)start of the inner loop, with no refresh_auth before it.
C15_RefreshBeforeReconnect ==
    [][\A t \in Tasks :
        /\ (MakesCall(t, "connect") /\ ~linked') => tpc[t] = "refresh"
        /\ MakesCall(t, "connect") => tpc[t] \in {"sleep10", "refresh"}
        /\ MakesCall(t, "refresh") => (tpc[t] = "sleep10" /\ ~linked)
        /\ MakesCall(t, "connect0") =>
              (tpc[t] \in {"new", "sleep30"} /\ ~connected)]_vars

\* C15 witness: a task is in the connect attempt of the sub-loop after a
\* refresh_auth that did not renew the credential
C15_Witness ==
    \E t \in Tasks : tpc[t] = "connect" /\ ~linked /\ ~connected /\ ~tcancel[t]

\* supervision task t has got the result ok of a connect() call
ConnectReturned(t, ok) ==
    /\ tpc[t] \in {"connect0", "connect"}
    /\ tpc'[t] \in {"sleep10", "subscribe"}
    /\ connected' = (connected \/ ok)

\* C16: in the reconnect sub-loop a 10s sleep separates each failed
\* connect() attempt from the next attempt, the sub-loop is left only after
\* a connect() call has returned true, and subscribe is never called while
\* connected() is false.
C16_SleepBetweenAttempts ==
    [][\A t \in Tasks :
        /\ (ConnectReturned(t, FALSE) /\ ~connected') => tpc'[t] = "sleep10"
        /\ MakesCall(t, "connect") =>
              tpc[t] \in {"sleep10", "refresh"}
        /\ MakesCall(t, "refresh") => tpc[t] = "sleep10"
        /\ (tpc[t] \in {"sleep10", "refresh", "connect"}
                /\ tpc'[t] = "subscribe") =>
              (tpc[t] = "connect" /\ connected'
                 /\ (ConnectReturned(t, TRUE) \/ connected))
        /\ (tpc'[t] = "subscribe" /\ tpc[t] \notin {"subscribe", "lookup"}) =>
              connected']_vars

\* C16 witness: a task that was told to renew the credential is back in the
\* 10s sleep, the channel still down
C16_Witness ==
    \E t \in Tasks : /\ tpc[t] = "sleep10"
                     /\ ~connected /\ ~linked
                     /\ \E m \in Calls : mrefresh[m] = 1 /\ mpc[m] = "done"

\* no two invocations of manual_reconnect have replaced the same task, so
\* the entity never had more than one supervision task
SingleSupervision ==
    \A m1, m2 \in Calls :
        (m1 # m2 /\ mpc[m1] = "done" /\ mpc[m2] = "done") => mtask[m1] # mtask[m2]

\* C17: whenever the single supervision task is in its 10s reconnect sleep,
\* the snapshot cache is null, the metadata record is empty, the observable
\* state is off and the observers have been notified of it.
C17_NoStateWhileReconnecting ==
    \A t \in Tasks : (tpc[t] = "sleep10" /\ SingleSupervision) =>
        /\ state = None
        /\ video_info = None
        /\ StateProperty(state) = "off"
        /\ ~ha_stale

\* C17 witness: the task sleeps in the reconnect loop after a session in
\* which a video was played and its metadata looked up
C17_Witness ==
    \E t \in Tasks : /\ tpc[t] = "sleep10"
                     /\ lookups["v1"] # "never"
                     /\ last_notification = None
                     /\ SingleSupervision

\* C18: within one invocation of the callback there is no suspension point
\* between the cache write and the observer notification, so no other task
\* ever runs while a written snapshot is still unpublished.
C18_NoSuspensionBeforePublish ==
    /\ \A t \in Tasks : tpc[t] # "lookup"
    /\ ~ha_stale

\* C19: whenever the metadata record is not empty, its title and channel are
\* those the service returned for the very id the record is keyed by.
C19_RecordMatchesItsId ==
    video_info # None =>
        /\ video_info[1].title = Snippet(video_info[1].id)
        /\ video_info[1].channel_title = Snippet(video_info[1].id)

\* C20: once the entity is removed its task is cancelled, the handle is
\* empty and no supervision task runs on or gets started, also when a
\* manual_reconnect was suspended at the time of the removal.
C20_NoTaskAfterRemoval ==
    removed =>
        /\ subscription = 0
        /\ \A t \in Tasks : Alive(tpc[t]) => tcancel[t]

\* C21: for every cached snapshot that is not null the position and the
\* duration a host reads are the snapshot's current position and duration
\* truncated to whole seconds, for every value including 0; they are absent
\* only when the cached snapshot is null.
C21_PositionAndDurationShown ==
    host_view # None =>
        LET snapshot == host_view[1].snapshot
        IN  IF snapshot = None
            THEN /\ host_view[1].media_position = None
                 /\ host_view[1].media_duration = None
            ELSE /\ host_view[1].media_position =
                        Some(snapshot[1].currentTime \div 10)
                 /\ host_view[1].media_duration =
                        Some(snapshot[1].duration \div 10)

====
